---- MODULE Spec2Model ----
(***************************************************************************)
(* Model of the two-stage retrieval pipeline (scripts/two_stage_search.py) *)
(* and of the benchmark driver loop (scripts/fair_benchmark.py).           *)
(*                                                                         *)
(* Representation choices                                                  *)
(*  - a Python str is a sequence of string pieces (a rope); its length is  *)
(*    the sum of the pieces' lengths (StrLen) and "+" is \o.  The pieces   *)
(*    are the literals and values the code concatenates, so the content    *)
(*    and the length of every string are the code's.                       *)
(*  - a similarity is an integer number of hundredths (95 is 0.95).  A     *)
(*    document score sum/sqrt(n) is kept as the pair [sum, n] and compared *)
(*    exactly (ScoreLess); within the bounds used here the exact order and *)
(*    the floating-point order coincide.                                   *)
(*  - a dict is a sequence of entries in insertion order (Python dicts     *)
(*    iterate in insertion order).                                         *)
(*  - list positions are 0-based in the code and 1-based here: the code's  *)
(*    metadata[idx] is metadata[idx + 1].                                  *)
(***************************************************************************)
EXTENDS Integers, Sequences, FiniteSets, TLC

VARIABLES
    artifacts,          \* the files under index_dir that _load reads
    obj,                \* "new" | "ready" | "failed": the TwoStageSearch object
    ntotal,             \* self.index.ntotal
    metadata,           \* self.metadata
    texts,              \* self.texts
    pc,                 \* position of the running search() call
    hits,               \* zip(scores[0], indices[0]) of the current call
    top_docs,           \* argument of search()
    max_context_chars,  \* argument of search()
    doc_chunks,         \* local of search()
    doc_scores,         \* local of search(), after the sort
    top_doc_scores,     \* local of search()
    di,                 \* position of "for doc in top_doc_scores"
    ci,                 \* position of "for chunk in best_chunks"
    doc_context,        \* local of search()
    total_chars,        \* local of search()
    context_parts,      \* local of search()
    result,             \* the dict search() returns, or the exception it raises
    remembered,         \* history: <<>>, or one earlier call's arguments and result
    bpc,                \* position of run_benchmark's loop body
    questions,          \* run_benchmark: the loaded questions
    qi,                 \* run_benchmark: the loop variable i
    answer,             \* run_benchmark: local of the loop body
    judgment,           \* run_benchmark: local of the loop body
    verdict,            \* run_benchmark: local of the loop body
    error,              \* run_benchmark: the exception e caught by the handler
    results,            \* run_benchmark: results
    n_correct,          \* run_benchmark: counter
    n_incorrect,        \* run_benchmark: counter
    n_not_attempted     \* run_benchmark: counter

objVars == <<artifacts, obj, ntotal, metadata, texts>>
callVars == <<pc, hits, top_docs, max_context_chars, doc_chunks, doc_scores,
              top_doc_scores, di, ci, doc_context, total_chars, context_parts,
              result>>
benchVars == <<bpc, questions, qi, answer, judgment, verdict, error, results,
               n_correct, n_incorrect, n_not_attempted>>
vars == <<objVars, callVars, remembered, benchVars>>

(***************************************************************************)
(* Bounds                                                                  *)
(***************************************************************************)
MaxHits == 3          \* largest top_k_chunks tried
MaxTopDocs == 2       \* largest top_docs tried
MaxQuestions == 3     \* largest number of loaded questions

NoValue == "<none>"

(***************************************************************************)
(* Strings                                                                 *)
(***************************************************************************)
RECURSIVE StrLen(_)
StrLen(s) == IF s = <<>> THEN 0 ELSE Len(Head(s)) + StrLen(Tail(s))

Min(a, b) == IF a < b THEN a ELSE b
Max(a, b) == IF a < b THEN b ELSE a

\* seq[:n] of Python
SliceTo(seq, n) ==
    IF n >= 0 THEN SubSeq(seq, 1, Min(n, Len(seq)))
    ELSE SubSeq(seq, 1, Max(0, Len(seq) + n))

\* sep.join(parts) of Python
RECURSIVE Join(_, _)
Join(sep, parts) ==
    IF parts = <<>> THEN <<>>
    ELSE IF Len(parts) = 1 THEN parts[1]
    ELSE parts[1] \o sep \o Join(sep, Tail(parts))

\* list.sort(key=...) / sorted(..., key=...): stable and ascending in the key.
\* less[i, j] is key(seq[i]) < key(seq[j]); an element goes after every element
\* of a smaller key and after the earlier elements of an equal key.
StableSort(seq, less) ==
    LET n == Len(seq)
        pos(i) == 1 + Cardinality({ j \in 1..n :
                          \/ less[j, i]
                          \/ (~less[i, j] /\ j < i) })
    IN  [p \in 1..n |-> seq[CHOOSE i \in 1..n : pos(i) = p]]

(***************************************************************************)
(* The artifacts on disk.  A chunk text is a one-piece string (or the      *)
(* empty string <<>>); texts of one index are pairwise different so that   *)
(* a piece of the context names the chunk it came from.                    *)
(***************************************************************************)
Meta(d, c) == [doc_id |-> d, chunk_index |-> c]

MetaMain == <<Meta("a", 0), Meta("a", 1), Meta("b", 0), Meta("b", 1), Meta("cc", 0)>>
TextsMain == << <<"x">>, <<"yyyyyyyyyyyyyyyyyyyyyyyyyyyyyy">>, <<"z">>, <<>>, <<"ww">> >>

MetaSmall == <<Meta("a", 0), Meta("b", 0), Meta("b", 1)>>
TextsSmall == << <<"x">>, <<"z">>, <<"vvv">> >>

Artifacts ==
    { \* aligned: 5 vectors, 5 metadata rows, 5 texts
      [present |-> TRUE, ntotal |-> 5, metadata |-> MetaMain, texts |-> TextsMain],
      \* texts.pkl one row short of the index
      [present |-> TRUE, ntotal |-> 3, metadata |-> MetaSmall,
       texts |-> SubSeq(TextsSmall, 1, 2)],
      \* metadata.pkl one row short of the index
      [present |-> TRUE, ntotal |-> 3, metadata |-> SubSeq(MetaSmall, 1, 2),
       texts |-> TextsSmall],
      \* a file of index_dir is missing
      [present |-> FALSE, ntotal |-> 0, metadata |-> <<>>, texts |-> <<>>] }

\* "aligned by the same integer position": one row per index vector
Aligned(a) == a.ntotal = Len(a.metadata) /\ a.ntotal = Len(a.texts)

\* similarities the index returns (hundredths)
Scores == {80, 90, 95}

\* values of max_context_chars tried
MaxCtxValues == {0, 23, 24, 60}

(***************************************************************************)
(* What index.search returns: top_k_chunks pairs, best first, each chunk   *)
(* at most once, padded at the end with the sentinel index -1.             *)
(***************************************************************************)
Hit(s, i) == [score |-> s, idx |-> i]
\* (the score beside a sentinel index is far below every similarity)
SentinelHit == Hit(-1000, -1)

ValidHitSeqs(m, n) ==
    { h \in [1..m -> {Hit(s, i) : s \in Scores, i \in 0..(n - 1)}] :
        /\ \A j, k \in 1..m : j < k => h[j].idx # h[k].idx
        /\ \A j \in 1..m : j < m => h[j].score >= h[j + 1].score }

HitSeqs(k, n) ==
    UNION { { v \o [j \in 1..(k - m) |-> SentinelHit] : v \in ValidHitSeqs(m, n) } :
            m \in 0..Min(k, n) }

HitInputs(n) == UNION { HitSeqs(k, n) : k \in 0..MaxHits }

(***************************************************************************)
(* TwoStageSearch: construction                                            *)
(***************************************************************************)
IdleCall ==
    /\ pc = "idle"
    /\ hits = <<>>
    /\ top_docs = 0
    /\ max_context_chars = 0
    /\ doc_chunks = <<>>
    /\ doc_scores = <<>>
    /\ top_doc_scores = <<>>
    /\ di = 0
    /\ ci = 0
    /\ doc_context = <<>>
    /\ total_chars = 0
    /\ context_parts = <<>>
    /\ result = NoValue

\* run_benchmark before its loop is entered (not running in Spec)
IdleBench ==
    /\ bpc = "off"
    /\ questions = <<>>
    /\ qi = 0
    /\ answer = NoValue
    /\ judgment = NoValue
    /\ verdict = NoValue
    /\ error = NoValue
    /\ results = <<>>
    /\ n_correct = 0
    /\ n_incorrect = 0
    /\ n_not_attempted = 0

\* before TwoStageSearch(...) is called: index = None, metadata = [], texts = []
NewObject ==
    /\ obj = "new"
    /\ ntotal = 0
    /\ metadata = <<>>
    /\ texts = <<>>

Init ==
    /\ artifacts \in Artifacts
    /\ NewObject
    /\ IdleCall
    /\ remembered = <<>>
    /\ IdleBench

\* __init__ and _load: read_index / open raise when a file is missing; nothing
\* compares index.ntotal, len(metadata) and len(texts)
Construct ==
    /\ obj = "new"
    /\ IF artifacts.present
       THEN /\ obj' = "ready"
            /\ ntotal' = artifacts.ntotal
            /\ metadata' = artifacts.metadata
            /\ texts' = artifacts.texts
       ELSE /\ obj' = "failed"
            /\ UNCHANGED <<ntotal, metadata, texts>>
    /\ UNCHANGED <<artifacts, callVars, remembered, benchVars>>

(***************************************************************************)
(* TwoStageSearch.search: the pure parts                                   *)
(***************************************************************************)
\* list[i] of Python is defined for -len <= i < len (negative i counts from
\* the end) and raises IndexError otherwise
InRange(list, i) == -Len(list) <= i /\ i < Len(list)
PyIndex(list, i) == IF i >= 0 THEN list[i + 1] ELSE list[Len(list) + i + 1]

\* _get_text_by_index
GetTextByIndex(idx) ==
    IF 0 <= idx /\ idx < Len(texts) THEN texts[idx + 1] ELSE <<>>

\* mutant: the sentinel -1 passes the test
IsValidHitOffByOne(h) == ~(h.idx < -1)

\* "if idx < 0: continue"
IsValidHit(h) == ~(h.idx < 0)

\* doc_chunks = {}
EmptyDocChunks == <<>>

\* doc_chunks[doc_id].append(...), creating the list on first use
AddChunk(dc, doc_id, chunk) ==
    IF \E e \in 1..Len(dc) : dc[e].doc_id = doc_id
    THEN [e \in 1..Len(dc) |->
            IF dc[e].doc_id = doc_id
            THEN [dc[e] EXCEPT !.chunks = Append(@, chunk)]
            ELSE dc[e]]
    ELSE Append(dc, [doc_id |-> doc_id, chunks |-> <<chunk>>])

\* the grouping loop raises IndexError at metadata[idx]
GroupRaises(hs) ==
    \E j \in 1..Len(hs) : IsValidHit(hs[j]) /\ ~InRange(metadata, hs[j].idx)

\* the grouping loop
RECURSIVE GroupHits(_, _)
GroupHits(dc, hs) ==
    IF hs = <<>> THEN dc
    ELSE LET h == Head(hs)
             meta == PyIndex(metadata, h.idx)
         IN  IF ~IsValidHit(h) THEN GroupHits(dc, Tail(hs))
             ELSE GroupHits(AddChunk(dc, meta.doc_id,
                                     [chunk_index |-> meta.chunk_index,
                                      faiss_index |-> h.idx,
                                      score |-> h.score]),
                            Tail(hs))

RECURSIVE SumScores(_)
SumScores(chunks) ==
    IF chunks = <<>> THEN 0 ELSE Head(chunks).score + SumScores(Tail(chunks))

\* mutant: the mean, sum / n, which as a pair is sum / sqrt(n * n)
DocScoreMean(chunks) == [sum |-> SumScores(chunks), n |-> Len(chunks) * Len(chunks)]

\* sum(c["score"] for c in chunks) / (n ** 0.5), kept as the pair [sum, n]
DocScore(chunks) == [sum |-> SumScores(chunks), n |-> Len(chunks)]

\* a.sum / sqrt(a.n) < b.sum / sqrt(b.n), decided exactly
SignedSquare(x) == IF x >= 0 THEN x * x ELSE -(x * x)
ScoreLess(a, b) == SignedSquare(a.sum) * b.n < SignedSquare(b.sum) * a.n

\* key=lambda x: -x["score"] on chunks
ChunkKeyLess(a, b) == -a.score < -b.score

\* mutant: the documents are sorted by ascending score
DocKeyLessAscending(a, b) == ScoreLess(a.score, b.score)

\* key=lambda x: -x["score"] on documents
DocKeyLess(a, b) == ScoreLess(b.score, a.score)

\* sorted(chunks, key=lambda x: -x["score"])
SortChunks(chunks) ==
    StableSort(chunks, [i, j \in 1..Len(chunks) |-> ChunkKeyLess(chunks[i], chunks[j])])

\* the scoring loop: one entry per document, in dict order
ScoreDocs(dc) ==
    [e \in 1..Len(dc) |->
        [doc_id |-> dc[e].doc_id,
         score |-> DocScore(dc[e].chunks),
         matching_chunks |-> SortChunks(dc[e].chunks)]]

\* doc_scores.sort(key=lambda x: -x["score"])
SortDocs(ds) ==
    StableSort(ds, [i, j \in 1..Len(ds) |-> DocKeyLess(ds[i], ds[j])])

\* doc_scores[:top_docs]
TopDocScores(ds, n) == SliceTo(ds, n)

\* the per-document chunk cap of "[:10]"
ChunkCap == 10

\* mutant: no cap, every matching chunk is a candidate
BestChunksAll(doc) == doc.matching_chunks

\* doc["matching_chunks"][:10]
BestChunks(doc) == SliceTo(doc.matching_chunks, ChunkCap)

\* "\n--- Document: " + doc_id + " ---\n"
DocHeader(doc_id) == <<"\n--- Document: ", doc_id, " ---\n">>

\* mutant: the budget is tested on the running total before the append
FitsBeforeAppend(total, chunk_text, ctx, budget) == total < budget

\* total_chars + len(chunk_text) + len(doc_context) < max_context_chars
Fits(total, chunk_text, ctx, budget) ==
    total + StrLen(chunk_text) + StrLen(ctx) < budget

\* mutant: "continue" for "break"
OnOverflowContinue(c) == [pc |-> "for_chunk", ci |-> c + 1]

\* "else: break": where the chunk loop goes, from chunk position c, when a
\* chunk does not fit
OnOverflow(c) == [pc |-> "doc_end", ci |-> c]

\* mutant: a chunk without text ends the chunk loop
OnEmptyTextBreak(c) == [pc |-> "doc_end", ci |-> c]

\* "if chunk_text:" is false: the body is skipped and the chunk loop goes on
\* with the next chunk
OnEmptyText(c) == [pc |-> "for_chunk", ci |-> c + 1]

\* mutant: ">=" for ">", which keeps a section that is only a header
HasContentOrHeader(ctx, doc_id) == StrLen(ctx) >= StrLen(DocHeader(doc_id))

\* len(doc_context) > header_len
HasContent(ctx, doc_id) == StrLen(ctx) > StrLen(DocHeader(doc_id))

\* mutant: ">" for ">=" in the budget exit
BudgetReachedStrictly(total, budget) == total > budget

\* "if total_chars >= max_context_chars: break"
BudgetReached(total, budget) == total >= budget

\* mutant: the candidates left by the cap are counted
NumCandidateChunks(doc) == Len(BestChunks(doc))

\* len(d["matching_chunks"])
NumMatchingChunks(doc) == Len(doc.matching_chunks)

\* the dict search() returns
MakeResult(parts, top) ==
    LET full_context == Join(<<"\n">>, parts)
    IN  [context |-> full_context,
         top_documents |-> [e \in 1..Len(top) |-> top[e].doc_id],
         document_scores |->
            [e \in 1..Len(top) |->
                [doc_id |-> top[e].doc_id,
                 score |-> top[e].score,
                 num_matching_chunks |-> NumMatchingChunks(top[e])]],
         context_chars |-> StrLen(full_context)]

(***************************************************************************)
(* TwoStageSearch.search: the steps of one call                            *)
(***************************************************************************)
\* mutant: a step of search() drops the text it last looked at from self.texts
ConsumesTexts ==
    /\ texts' = IF texts = <<>> THEN texts ELSE SubSeq(texts, 1, Len(texts) - 1)
    /\ UNCHANGED <<artifacts, obj, ntotal, metadata>>

\* the code of search() assigns no attribute of self
ReadOnly == UNCHANGED objVars

\* what a step of search() leaves alone besides its own locals
CallFrame == ReadOnly /\ UNCHANGED <<remembered, benchVars>>

\* the embedding request or index.search raises: the exception leaves search()
\* before any hit exists
QueryFails ==
    /\ obj = "ready"
    /\ pc = "idle"
    /\ pc' = "raised"
    /\ result' = "QueryError"
    /\ UNCHANGED <<hits, top_docs, max_context_chars, doc_chunks, doc_scores,
                   top_doc_scores, di, ci, doc_context, total_chars,
                   context_parts>>
    /\ CallFrame

\* Stage 1 up to "total_chars = 0": search, group, score, sort, slice
StartSearch(HS, TD, MC) ==
    /\ obj = "ready"
    /\ pc = "idle"
    /\ \E h \in HS, t \in TD, m \in MC :
        /\ hits' = h
        /\ top_docs' = t
        /\ max_context_chars' = m
        /\ IF GroupRaises(h)
           THEN /\ pc' = "raised"
                /\ result' = "IndexError"
                /\ UNCHANGED <<doc_chunks, doc_scores, top_doc_scores, di, ci,
                               doc_context, total_chars, context_parts>>
           ELSE LET dc == GroupHits(EmptyDocChunks, h)
                    ds == SortDocs(ScoreDocs(dc))
                    top == TopDocScores(ds, t)
                IN  /\ doc_chunks' = dc
                    /\ doc_scores' = ds
                    /\ top_doc_scores' = top
                    /\ context_parts' = <<>>
                    /\ total_chars' = 0
                    /\ di' = 1
                    /\ pc' = IF top = <<>> THEN "join" ELSE "for_doc"
                    /\ UNCHANGED <<ci, doc_context, result>>
    /\ CallFrame

\* "for doc in top_doc_scores:" down to the header assignment
DocBegin ==
    /\ pc = "for_doc"
    /\ doc_context' = DocHeader(top_doc_scores[di].doc_id)
    /\ ci' = 1
    /\ pc' = "for_chunk"
    /\ UNCHANGED <<hits, top_docs, max_context_chars, doc_chunks, doc_scores,
                   top_doc_scores, di, total_chars, context_parts, result>>
    /\ CallFrame

\* one pass of "for chunk in best_chunks:" (or its exhaustion)
ChunkStep ==
    /\ pc = "for_chunk"
    /\ LET best_chunks == BestChunks(top_doc_scores[di])
       IN  IF ci > Len(best_chunks)
           THEN /\ pc' = "doc_end"
                /\ UNCHANGED <<ci, doc_context, total_chars>>
           ELSE LET chunk_text == GetTextByIndex(best_chunks[ci].faiss_index)
                IN  IF StrLen(chunk_text) > 0
                    THEN IF Fits(total_chars, chunk_text, doc_context,
                                 max_context_chars)
                         THEN /\ doc_context' = doc_context \o <<"\n">> \o chunk_text
                                                    \o <<"\n">>
                              /\ total_chars' = total_chars + StrLen(chunk_text)
                              /\ ci' = ci + 1
                              /\ pc' = "for_chunk"
                         ELSE /\ pc' = OnOverflow(ci).pc
                              /\ ci' = OnOverflow(ci).ci
                              /\ UNCHANGED <<doc_context, total_chars>>
                    ELSE /\ pc' = OnEmptyText(ci).pc
                         /\ ci' = OnEmptyText(ci).ci
                         /\ UNCHANGED <<doc_context, total_chars>>
    /\ UNCHANGED <<hits, top_docs, max_context_chars, doc_chunks, doc_scores,
                   top_doc_scores, di, context_parts, result>>
    /\ CallFrame

\* after the chunk loop: keep or drop the section, then the budget exit
DocEnd ==
    /\ pc = "doc_end"
    /\ context_parts' = IF HasContent(doc_context, top_doc_scores[di].doc_id)
                        THEN Append(context_parts, doc_context)
                        ELSE context_parts
    /\ IF BudgetReached(total_chars, max_context_chars) \/ di = Len(top_doc_scores)
       THEN pc' = "join" /\ di' = di
       ELSE pc' = "for_doc" /\ di' = di + 1
    /\ UNCHANGED <<hits, top_docs, max_context_chars, doc_chunks, doc_scores,
                   top_doc_scores, ci, doc_context, total_chars, result>>
    /\ CallFrame

\* full_context and the returned dict
Finish ==
    /\ pc = "join"
    /\ result' = MakeResult(context_parts, top_doc_scores)
    /\ pc' = "done"
    /\ UNCHANGED <<hits, top_docs, max_context_chars, doc_chunks, doc_scores,
                   top_doc_scores, di, ci, doc_context, total_chars,
                   context_parts>>
    /\ CallFrame

\* the call is over (returned or raised): its locals are gone
Return ==
    /\ pc \in {"done", "raised"}
    /\ pc' = "idle"
    /\ hits' = <<>>
    /\ top_docs' = 0
    /\ max_context_chars' = 0
    /\ doc_chunks' = <<>>
    /\ doc_scores' = <<>>
    /\ top_doc_scores' = <<>>
    /\ di' = 0
    /\ ci' = 0
    /\ doc_context' = <<>>
    /\ total_chars' = 0
    /\ context_parts' = <<>>
    /\ result' = NoValue
    /\ CallFrame

\* history only: keep the arguments and the result of a finished call
Remember ==
    /\ pc = "done"
    /\ remembered = <<>>
    /\ remembered' = <<[hits |-> hits, top_docs |-> top_docs,
                        max_context_chars |-> max_context_chars,
                        result |-> result]>>
    /\ UNCHANGED <<objVars, callVars, benchVars>>

\* search(query, top_k_chunks, top_docs, max_context_chars) is called
Search == StartSearch(HitInputs(ntotal), 0..MaxTopDocs, MaxCtxValues)

Next ==
    \/ Construct
    \/ QueryFails
    \/ Search
    \/ DocBegin
    \/ ChunkStep
    \/ DocEnd
    \/ Finish
    \/ Return

Spec == Init /\ [][Next]_vars

(***************************************************************************)
(* Repeated calls: the same steps over fewer arguments, with the history   *)
(* of one earlier call kept beside them.                                   *)
(***************************************************************************)
MaxRepeatHits == 2    \* largest top_k_chunks tried in SpecRepeat

RepeatHitInputs(n) == UNION { HitSeqs(k, n) : k \in 0..MaxRepeatHits }

SearchAgain == StartSearch(RepeatHitInputs(ntotal), {2}, {24})

InitRepeat ==
    /\ Init
    /\ artifacts.present
    /\ artifacts.ntotal <= Len(artifacts.metadata)
    /\ artifacts.ntotal < 5

NextRepeat ==
    \/ Construct
    \/ QueryFails
    \/ SearchAgain
    \/ DocBegin
    \/ ChunkStep
    \/ DocEnd
    \/ Finish
    \/ Return
    \/ Remember

SpecRepeat == InitRepeat /\ [][NextRepeat]_vars

(***************************************************************************)
(* A document with more hits than the chunk cap: the same steps over an    *)
(* index of one long document "a" (12 chunks) and a one-chunk document     *)
(* "b", every chunk but chunk 10 of "a" with a two-character text of its   *)
(* own.                                                                    *)
(***************************************************************************)
MaxCapHits == 12      \* largest top_k_chunks tried in SpecCap

MetaCap == [i \in 1..13 |-> IF i <= 12 THEN Meta("a", i - 1) ELSE Meta("b", 0)]
TextsCap == << <<"c0">>, <<"c1">>, <<"c2">>, <<"c3">>, <<"c4">>, <<"c5">>, <<"c6">>,
               <<"c7">>, <<"c8">>, <<"c9">>, <<>>, <<"cb">>, <<"b0">> >>

CapArtifact ==
    [present |-> TRUE, ntotal |-> Len(MetaCap), metadata |-> MetaCap, texts |-> TextsCap]

\* k similarities, best first: p times 0.95, then 0.90 up to position q, then 0.80
ScoreRun(k, p, q) ==
    [j \in 1..k |-> IF j <= p THEN 95 ELSE IF j <= q THEN 90 ELSE 80]

\* k pairs: the nearest chunks, found in index order or in reverse index
\* order, the last pair a sentinel when the index found one chunk less
CapHitSeqs(k, n) ==
    UNION { { [j \in 1..k |->
                IF j <= m THEN Hit(ScoreRun(k, p, q)[j], IF up THEN j - 1 ELSE n - j)
                ELSE SentinelHit] :
              p \in 0..m, q \in 0..m, up \in BOOLEAN } :
            m \in (k - 1)..k }

CapHitInputs(n) == UNION { CapHitSeqs(Min(k, n), n) : k \in (MaxCapHits - 1)..MaxCapHits }

SearchCap == StartSearch(CapHitInputs(ntotal), {1, 2}, {40, 200})

InitCap ==
    /\ artifacts = CapArtifact
    /\ NewObject
    /\ IdleCall
    /\ remembered = <<>>
    /\ IdleBench

NextCap ==
    \/ Construct
    \/ QueryFails
    \/ SearchCap
    \/ DocBegin
    \/ ChunkStep
    \/ DocEnd
    \/ Finish
    \/ Return

SpecCap == InitCap /\ [][NextCap]_vars

(***************************************************************************)
(* run_benchmark: the loop over the questions.  The calls it makes to the  *)
(* embedding, answer and judge services are external: each returns or      *)
(* raises.                                                                 *)
(***************************************************************************)
\* load_questions: row i becomes the question of index i
LoadedQuestions(k) == [i \in 1..k |-> [index |-> i - 1]]

\* what json.loads gives judge_answer: a dict with or without "verdict"
\* (a str, or null), or something that is no dict
RawJudgments ==
    { [has |-> TRUE, verdict |-> v] :
        v \in {"CORRECT", "correct", "INCORRECT", "NOT_ATTEMPTED", "PARTIAL", "null"} }
    \cup { [has |-> FALSE, verdict |-> NoValue] }

\* str.upper on the verdicts above
Upper(v) == IF v = "correct" THEN "CORRECT" ELSE v

\* judge_answer after json.loads: result["verdict"].upper() raises on null
JudgeRaises(raw) == raw.has /\ raw.verdict = "null"
JudgeResult(raw) == IF raw.has THEN [raw EXCEPT !.verdict = Upper(@)] ELSE raw

\* mutant: a judgment without a verdict counts as not attempted
VerdictOfDefaultNotAttempted(j) == Upper(IF j.has THEN j.verdict ELSE "NOT_ATTEMPTED")

\* judgment.get("verdict", "INCORRECT").upper()
VerdictOf(j) == Upper(IF j.has THEN j.verdict ELSE "INCORRECT")

BenchFrame == UNCHANGED <<objVars, callVars, remembered>>

InitBench ==
    /\ artifacts \in {a \in Artifacts : a.present /\ Aligned(a)}
    /\ NewObject
    /\ IdleCall
    /\ remembered = <<>>
    /\ \E k \in 0..MaxQuestions :
        /\ questions = LoadedQuestions(k)
        /\ bpc = IF k = 0 THEN "done" ELSE "search"
    /\ qi = 0
    /\ answer = NoValue
    /\ judgment = NoValue
    /\ verdict = NoValue
    /\ error = NoValue
    /\ results = <<>>
    /\ n_correct = 0
    /\ n_incorrect = 0
    /\ n_not_attempted = 0

\* search.search(...) inside the try
BenchSearch ==
    /\ bpc = "search"
    /\ \E ok \in BOOLEAN :
        IF ok THEN bpc' = "generate" /\ error' = error
        ELSE bpc' = "except" /\ error' = "search failed"
    /\ UNCHANGED <<questions, qi, answer, judgment, verdict, results,
                   n_correct, n_incorrect, n_not_attempted>>
    /\ BenchFrame

\* generate_answer(...) and the two totals
BenchGenerate ==
    /\ bpc = "generate"
    /\ \E ok \in BOOLEAN :
        IF ok THEN bpc' = "judge" /\ answer' = "answer" /\ error' = error
        ELSE bpc' = "except" /\ answer' = answer /\ error' = "generation failed"
    /\ UNCHANGED <<questions, qi, judgment, verdict, results,
                   n_correct, n_incorrect, n_not_attempted>>
    /\ BenchFrame

\* judge_answer(...): the request or json.loads raises, or the verdict is
\* upper-cased and the dict returned
BenchJudge ==
    /\ bpc = "judge"
    /\ \/ /\ bpc' = "except"
          /\ error' = "judge failed"
          /\ judgment' = judgment
       \/ \E raw \in RawJudgments :
            IF JudgeRaises(raw)
            THEN bpc' = "except" /\ error' = "no upper" /\ judgment' = judgment
            ELSE bpc' = "count" /\ error' = error /\ judgment' = JudgeResult(raw)
    /\ UNCHANGED <<questions, qi, answer, verdict, results,
                   n_correct, n_incorrect, n_not_attempted>>
    /\ BenchFrame

\* "Update counts"
BenchCount ==
    /\ bpc = "count"
    /\ verdict' = VerdictOf(judgment)
    /\ n_correct' = IF verdict' = "CORRECT" THEN n_correct + 1 ELSE n_correct
    /\ n_not_attempted' = IF verdict' = "NOT_ATTEMPTED"
                          THEN n_not_attempted + 1 ELSE n_not_attempted
    /\ n_incorrect' = IF verdict' \notin {"CORRECT", "NOT_ATTEMPTED"}
                      THEN n_incorrect + 1 ELSE n_incorrect
    /\ bpc' = "store"
    /\ UNCHANGED <<questions, qi, answer, judgment, error, results>>
    /\ BenchFrame

\* mutant: the handler ends the loop, as a re-raise or a "break" would
NextQuestionAbortsOnError ==
    /\ qi' = qi + 1
    /\ bpc' = IF qi + 1 < Len(questions) /\ bpc # "except" THEN "search" ELSE "done"
    /\ answer' = NoValue
    /\ judgment' = NoValue
    /\ verdict' = NoValue
    /\ error' = NoValue

\* the loop variable after the body: the next question, or the loop's exit
NextQuestion ==
    /\ qi' = qi + 1
    /\ bpc' = IF qi + 1 < Len(questions) THEN "search" ELSE "done"
    /\ answer' = NoValue
    /\ judgment' = NoValue
    /\ verdict' = NoValue
    /\ error' = NoValue

\* "Store result": the record of a judged question
BenchStore ==
    /\ bpc = "store"
    /\ results' = Append(results,
                         [index |-> questions[qi + 1].index,
                          actual_answer |-> answer,
                          verdict |-> verdict,
                          error |-> NoValue])
    /\ NextQuestion
    /\ UNCHANGED <<questions, n_correct, n_incorrect, n_not_attempted>>
    /\ BenchFrame

\* "except Exception as e": the record of a failed question
BenchExcept ==
    /\ bpc = "except"
    /\ results' = Append(results,
                         [index |-> questions[qi + 1].index,
                          actual_answer |-> <<"ERROR: ", error>>,
                          verdict |-> "NOT_ATTEMPTED",
                          error |-> error])
    /\ n_not_attempted' = n_not_attempted + 1
    /\ NextQuestion
    /\ UNCHANGED <<questions, n_correct, n_incorrect>>
    /\ BenchFrame

NextBench ==
    \/ BenchSearch
    \/ BenchGenerate
    \/ BenchJudge
    \/ BenchCount
    \/ BenchStore
    \/ BenchExcept

SpecBench == InitBench /\ [][NextBench]_vars

(***************************************************************************)
(* Properties                                                              *)
(***************************************************************************)
Returned == pc = "done"

\* the positions of hits that are valid hits of document d
HitsOfDoc(d) ==
    { j \in 1..Len(hits) : hits[j].idx >= 0 /\ metadata[hits[j].idx + 1].doc_id = d }

\* the documents with at least one valid hit
HitDocs == { metadata[hits[j].idx + 1].doc_id : j \in {k \in 1..Len(hits) : hits[k].idx >= 0} }

\* a section of document d starts somewhere in the string ctx
SectionEmitted(ctx, d) ==
    \E i \in 1..(Len(ctx) - 2) : SubSeq(ctx, i, i + 2) = DocHeader(d)

SeqToSet(q) == { q[i] : i \in 1..Len(q) }

\* the longest header among the documents search() selected
LongestHeader ==
    LET lens == { StrLen(DocHeader(top_doc_scores[e].doc_id)) : e \in 1..Len(top_doc_scores) }
    IN  CHOOSE l \in lens : \A k \in lens : k <= l

\* C1: every non-empty context search() returns is at most max_context_chars
\* plus one document header long, all headers, newlines and separators counted.
C1_ContextWithinBudgetPlusHeader ==
    (Aligned(artifacts) /\ Returned /\ max_context_chars > 0 /\ result.context # <<>>) =>
        result.context_chars <= max_context_chars + LongestHeader

\* C2: a document is in top_documents exactly when a section of it is in the
\* context.
C2_TopDocumentsAreTheIncluded ==
    (Aligned(artifacts) /\ Returned /\ max_context_chars > 0) =>
        \A d \in HitDocs :
            (d \in SeqToSet(result.top_documents)) <=> SectionEmitted(result.context, d)

\* C3: with misaligned artifacts construction fails: no search object exists
\* and no query runs.
C3_MisalignedLoadIsFatal ==
    ~Aligned(artifacts) => (obj # "ready" /\ pc = "idle")

\* every pair index.search returned carries a sentinel index (or there is none)
AllSentinel == \A j \in 1..Len(hits) : hits[j].idx < 0

EmptyResult ==
    [context |-> <<>>, top_documents |-> <<>>, document_scores |-> <<>>,
     context_chars |-> 0]

\* C4: when index.search returned only sentinel indices, or nothing, search()
\* does not raise and returns the empty context, no documents, no scores and
\* context_chars = 0.
C4_NoValidHitsGiveEmptyResult ==
    (pc # "idle" /\ ~(pc = "raised" /\ result = "QueryError") /\ AllSentinel) =>
        /\ pc \in {"join", "done"}
        /\ Returned => result = EmptyResult

C4_Witness ==
    /\ Returned
    /\ Len(hits) >= 2
    /\ AllSentinel
    /\ top_docs > 0
    /\ max_context_chars > 0
    /\ result = EmptyResult

\* the similarities of the valid hits of document d, in hit order
HitScores(d) ==
    LET valid == SelectSeq(hits, LAMBDA h : h.idx >= 0 /\ metadata[h.idx + 1].doc_id = d)
    IN  [k \in 1..Len(valid) |-> valid[k].score]

RECURSIVE SumSeq(_)
SumSeq(q) == IF q = <<>> THEN 0 ELSE Head(q) + SumSeq(Tail(q))

\* (s_1 + ... + s_n) / sqrt(n) of document d, read off the hits
AggregateOf(d) == [sum |-> SumSeq(HitScores(d)), n |-> Len(HitScores(d))]

FirstHit(d) == CHOOSE j \in HitsOfDoc(d) : \A k \in HitsOfDoc(d) : j <= k

\* a has the higher aggregate score, or the same and the earlier first hit
RanksAhead(a, b) ==
    \/ ScoreLess(AggregateOf(b), AggregateOf(a))
    \/ /\ ~ScoreLess(AggregateOf(a), AggregateOf(b))
       /\ FirstHit(a) < FirstHit(b)

\* C5: top_documents holds exactly min(top_docs, D) documents, the best by
\* aggregate score, in descending score with ties in first-hit order, and
\* document_scores lists the same documents in the same order.
C5_TopDocumentsAreTheBestRanked ==
    Returned =>
        LET td == result.top_documents
        IN  /\ Len(td) = Min(top_docs, Cardinality(HitDocs))
            /\ SeqToSet(td) \subseteq HitDocs
            /\ \A i, j \in 1..Len(td) : i < j => RanksAhead(td[i], td[j])
            /\ \A d \in HitDocs \ SeqToSet(td) :
                    \A i \in 1..Len(td) : RanksAhead(td[i], d)
            /\ Len(result.document_scores) = Len(td)
            /\ \A i \in 1..Len(td) : result.document_scores[i].doc_id = td[i]

\* three documents, two asked for, and the one left out ties with the last kept
C5_Witness ==
    /\ Returned
    /\ Cardinality(HitDocs) = 3
    /\ top_docs = 2
    /\ Len(result.top_documents) = 2
    /\ \E d \in HitDocs \ SeqToSet(result.top_documents) :
            ~ScoreLess(AggregateOf(d), AggregateOf(result.top_documents[2]))
    /\ ScoreLess(AggregateOf(result.top_documents[2]),
                 AggregateOf(result.top_documents[1]))

\* the two scores are the same number
SameScore(a, b) == ~ScoreLess(a, b) /\ ~ScoreLess(b, a)

Ranked == pc \in {"for_doc", "for_chunk", "doc_end", "join", "done"}

\* sum_A^2 * n_B > sum_B^2 * n_A, on the hits of the documents at positions
\* i and j of the ranking (sums are not negative here)
GreaterByCrossProduct(i, j) ==
    LET a == AggregateOf(doc_scores[i].doc_id)
        b == AggregateOf(doc_scores[j].doc_id)
    IN  a.sum * a.sum * b.n > b.sum * b.sum * a.n

\* each score is (s_1 + ... + s_n) / sqrt(n), a single hit's is its similarity,
\* and hits [0.9, 0.8] are ranked ahead of the single hit [0.95]
ScoresAreSumOverRootN ==
    /\ \A e \in 1..Len(doc_scores) :
          LET d == doc_scores[e].doc_id
          IN  /\ SameScore(doc_scores[e].score, AggregateOf(d))
              /\ Len(HitScores(d)) = 1 =>
                    doc_scores[e].score = [sum |-> HitScores(d)[1], n |-> 1]
    /\ \A i, j \in 1..Len(doc_scores) :
          (HitScores(doc_scores[i].doc_id) = <<90, 80>>
              /\ HitScores(doc_scores[j].doc_id) = <<95>>) => i < j

\* C6 as stated: a document's score is (s_1 + ... + s_n) / sqrt(n), and A is
\* ranked ahead of B exactly when sum_A^2 * n_B > sum_B^2 * n_A; hits
\* [0.9, 0.8] beat the single hit [0.95]; one hit scores its similarity.
C6_RankedAheadExactlyWhenGreater ==
    (Aligned(artifacts) /\ Ranked) =>
        /\ ScoresAreSumOverRootN
        /\ \A i, j \in 1..Len(doc_scores) :
              i # j => ((i < j) <=> GreaterByCrossProduct(i, j))

\* C6 as amended: as above, but A is ranked ahead of B exactly when
\* sum_A^2 * n_B > sum_B^2 * n_A, or the two are equal and the first valid hit
\* of A precedes the first valid hit of B.
C6_ScoreIsSumOverRootN ==
    Ranked =>
        /\ ScoresAreSumOverRootN
        /\ \A i, j \in 1..Len(doc_scores) :
              i # j =>
                ((i < j) <=>
                    \/ GreaterByCrossProduct(i, j)
                    \/ /\ ~GreaterByCrossProduct(j, i)
                       /\ FirstHit(doc_scores[i].doc_id) < FirstHit(doc_scores[j].doc_id))

\* the two-chunk document [0.9, 0.8] is listed before the one-chunk [0.95]
C6_Witness ==
    /\ Returned
    /\ Len(result.top_documents) = 2
    /\ HitScores(result.top_documents[1]) = <<90, 80>>
    /\ HitScores(result.top_documents[2]) = <<95>>
    /\ hits[1].score = 95

\* ctx holds, from piece i on, a header, then one chunk between two newlines
HeaderWithChunkAt(ctx, i) ==
    /\ i + 5 <= Len(ctx)
    /\ ctx[i + 2] = " ---\n"
    /\ ctx[i + 3] = "\n"
    /\ Len(ctx[i + 4]) > 0
    /\ ctx[i + 4] # "\n--- Document: "
    /\ ctx[i + 5] = "\n"

\* the text of the first candidate chunk of a selected document
FirstCandidateText(doc) == GetTextByIndex(BestChunks(doc)[1].faiss_index)

\* C7: the context holds no header-only section: every header in it is followed
\* by a non-empty chunk; a document whose first candidate chunk is longer than
\* max_context_chars has no section in it.
C7_NoHeaderOnlySection ==
    Returned =>
        /\ \A i \in 1..Len(result.context) :
              result.context[i] = "\n--- Document: " => HeaderWithChunkAt(result.context, i)
        /\ \A e \in 1..Len(top_doc_scores) :
              max_context_chars < StrLen(FirstCandidateText(top_doc_scores[e])) =>
                  ~SectionEmitted(result.context, top_doc_scores[e].doc_id)

\* a selected document is left out because its first chunk is longer than the
\* budget, beside a document whose section is in the context
C7_Witness ==
    /\ Returned
    /\ result.context # <<>>
    /\ \E e \in 1..Len(top_doc_scores) :
          /\ max_context_chars < StrLen(FirstCandidateText(top_doc_scores[e]))
          /\ ~SectionEmitted(result.context, top_doc_scores[e].doc_id)

\* the chunk texts of a section, in order (its pieces 5, 8, 11, ...)
SectionTexts(part) == [k \in 1..((Len(part) - 3) \div 3) |-> part[3 * k + 2]]

\* the non-empty texts of a document's candidate chunks, in candidate order
CandidateTexts(doc) ==
    LET best == BestChunks(doc)
        all == [k \in 1..Len(best) |-> GetTextByIndex(best[k].faiss_index)]
        full == SelectSeq(all, LAMBDA t : StrLen(t) > 0)
    IN  [k \in 1..Len(full) |-> full[k][1]]

IsPrefix(p, q) == Len(p) <= Len(q) /\ SubSeq(q, 1, Len(p)) = p

\* the selected document whose header opens the section
DocOfSection(part) ==
    CHOOSE e \in 1..Len(top_doc_scores) : top_doc_scores[e].doc_id = part[2]

\* C10: once a chunk with text fails the pre-append check, nothing more is
\* appended for that document; the chunks of a document in the context are a
\* prefix of its candidate chunks (those without text left aside).
C10_StopAtFirstOverflow ==
    /\ pc \in {"for_chunk", "doc_end"} =>
          IsPrefix(SectionTexts(doc_context), CandidateTexts(top_doc_scores[di]))
    /\ (pc = "doc_end" /\ ci <= Len(BestChunks(top_doc_scores[di]))) =>
          LET t == GetTextByIndex(BestChunks(top_doc_scores[di])[ci].faiss_index)
          IN  /\ StrLen(t) > 0
              /\ ~Fits(total_chars, t, doc_context, max_context_chars)
    /\ Ranked =>
          \A k \in 1..Len(context_parts) :
              IsPrefix(SectionTexts(context_parts[k]),
                       CandidateTexts(top_doc_scores[DocOfSection(context_parts[k])]))
    /\ Returned => result.context = Join(<<"\n">>, context_parts)

\* the loop has stopped at a chunk that does not fit although a later, shorter
\* chunk of the same document would fit
C10_Witness ==
    /\ pc = "doc_end"
    /\ LET best == BestChunks(top_doc_scores[di])
       IN  /\ ci < Len(best)
           /\ \E c \in (ci + 1)..Len(best) :
                LET t == GetTextByIndex(best[c].faiss_index)
                IN  /\ StrLen(t) > 0
                    /\ Fits(total_chars, t, doc_context, max_context_chars)

\* the arguments and the result of the remembered call
SameArguments(r) ==
    /\ r.hits = hits
    /\ r.top_docs = top_docs
    /\ r.max_context_chars = max_context_chars

ErrorRecord(q, e) ==
    [index |-> q.index, actual_answer |-> <<"ERROR: ", e>>,
     verdict |-> "NOT_ATTEMPTED", error |-> e]

\* one record per question handled so far, in question order
OneRecordPerQuestion ==
    /\ Len(results) = (IF bpc = "done" THEN Len(questions) ELSE qi)
    /\ \A k \in 1..Len(results) : results[k].index = questions[k].index

\* a question is under way until the loop is left, and a step is possible
LoopGoesOn ==
    bpc # "done" => (qi < Len(questions) /\ ENABLED NextBench)

\* the handler stores the failed question's record and the loop moves on to the
\* next question (or ends after the last one)
HandlerRecordsAndContinues ==
    bpc = "except" =>
        /\ results' = Append(results, ErrorRecord(questions[qi + 1], error))
        /\ bpc' = IF qi + 1 < Len(questions) THEN "search" ELSE "done"

\* C9: a failure in retrieval, generation or judging of one question does not
\* end the run: the loop goes on, and at its exit results holds one record per
\* question, in order, a failed question's with the error text and the verdict
\* NOT_ATTEMPTED.
C9_FailuresDoNotAbortTheRun ==
    /\ [](OneRecordPerQuestion /\ LoopGoesOn)
    /\ [][HandlerRecordsAndContinues]_vars

\* the loop is over after a failed first question and a judged last one
C9_Witness ==
    /\ bpc = "done"
    /\ Len(questions) = 3
    /\ Len(results) = 3
    /\ results[1].error = "search failed"
    /\ results[2].error = "judge failed"
    /\ results[3].error = NoValue
    /\ results[3].verdict = "CORRECT"

\* a searched chunk that has no text: its index is outside the text table, or
\* its text is the empty string
NoText(idx) == StrLen(GetTextByIndex(idx)) = 0

\* index.search returned a valid hit that has no text
HasTextlessHit == \E j \in 1..Len(hits) : hits[j].idx >= 0 /\ NoText(hits[j].idx)

\* the texts of the candidates before position c of a document, those without
\* text left out
TextsBefore(doc, c) ==
    LET best == BestChunks(doc)
        seen == SubSeq(best, 1, Min(c - 1, Len(best)))
        full == SelectSeq(seen, LAMBDA k : ~NoText(k.faiss_index))
    IN  [k \in 1..Len(full) |-> GetTextByIndex(full[k].faiss_index)[1]]

\* the chunk loop never stops at a chunk without text, and the section holds
\* the text of every chunk with text it has passed
TextlessChunksArePassed ==
    /\ pc \in {"for_chunk", "doc_end"} =>
          SectionTexts(doc_context) = TextsBefore(top_doc_scores[di], ci)
    /\ (pc = "doc_end" /\ ci <= Len(BestChunks(top_doc_scores[di]))) =>
          ~NoText(BestChunks(top_doc_scores[di])[ci].faiss_index)

\* every hit of a listed document, with or without text, is in its score and
\* in its num_matching_chunks
TextlessHitsAreCounted ==
    Returned =>
        \A e \in 1..Len(result.document_scores) :
            LET s == result.document_scores[e]
            IN  /\ s.num_matching_chunks = Cardinality(HitsOfDoc(s.doc_id))
                /\ SameScore(s.score, AggregateOf(s.doc_id))

\* the pass of the chunk loop over a chunk without text changes neither the
\* section nor the running total, and goes on to the next chunk
TextlessChunkIsSkipped ==
    (/\ pc = "for_chunk"
     /\ ci <= Len(BestChunks(top_doc_scores[di]))
     /\ NoText(BestChunks(top_doc_scores[di])[ci].faiss_index)) =>
        /\ doc_context' = doc_context
        /\ total_chars' = total_chars
        /\ context_parts' = context_parts
        /\ pc' = "for_chunk"
        /\ ci' = ci + 1

TextIndexOf(t) == CHOOSE i \in 0..(Len(texts) - 1) : texts[i + 1] = <<t>>

\* the position in the search result of the hit on index idx
HitPos(idx) == CHOOSE j \in 1..Len(hits) : hits[j].idx = idx

\* the rank of hit j among the valid hits of its document: one more than the
\* number of them with a higher similarity, or the same and found earlier
RankInDoc(j) ==
    LET d == metadata[hits[j].idx + 1].doc_id
    IN  1 + Cardinality({ k \in HitsOfDoc(d) :
                            \/ hits[k].score > hits[j].score
                            \/ (hits[k].score = hits[j].score /\ k < j) })

\* the ranks, within the document, of the hits whose texts a section holds
SectionRanks(part) ==
    [k \in 1..Len(SectionTexts(part)) |->
        RankInDoc(HitPos(TextIndexOf(SectionTexts(part)[k])))]

\* the texts of a section are texts of hits of its document
SectionOfOwnHits(part) ==
    \A k \in 1..Len(SectionTexts(part)) :
        HitPos(TextIndexOf(SectionTexts(part)[k])) \in HitsOfDoc(part[2])

\* C12: the chunk texts of every section come from the 10 best valid hits of
\* the section's document, by similarity with equal similarities in search
\* order, and stand in that order; the 11th-best hit and those below it never
\* contribute.
C12_SectionFromTenBestHits ==
    /\ Ranked =>
          \A s \in 1..Len(context_parts) :
              LET part == context_parts[s]
                  ranks == SectionRanks(part)
              IN  /\ SectionOfOwnHits(part)
                  /\ \A k \in 1..Len(ranks) : ranks[k] <= 10
                  /\ \A k, l \in 1..Len(ranks) : k < l => ranks[k] < ranks[l]
    /\ Returned => result.context = Join(<<"\n">>, context_parts)

\* a document with at least 11 hits has a section of exactly 10 chunks in the
\* returned context, and the budget had room for one more chunk
C12_Witness ==
    /\ Returned
    /\ \E s \in 1..Len(context_parts) :
          /\ Cardinality(HitsOfDoc(context_parts[s][2])) >= 11
          /\ Len(SectionTexts(context_parts[s])) = 10
          /\ total_chars + 2 + StrLen(context_parts[s]) + 3 < max_context_chars

\* the selected documents ranked below the one the document loop is at
LowerRanked == { top_doc_scores[e].doc_id : e \in (di + 1)..Len(top_doc_scores) }

\* the document loop starts on a lower-ranked document only under the budget,
\* and when it was left at the budget no lower-ranked document has a section
NoDocumentPastTheBudget ==
    /\ (pc \in {"for_doc", "for_chunk", "doc_end"} /\ di > 1) =>
          total_chars < max_context_chars
    /\ (pc \in {"join", "done"} /\ total_chars >= max_context_chars) =>
          \A d \in LowerRanked :
              /\ ~SectionEmitted(Join(<<"\n">>, context_parts), d)
              /\ Returned => ~SectionEmitted(result.context, d)

\* at the end of a document with the running total at the budget, the
\* document loop is left
BudgetExitLeavesTheLoop ==
    (pc = "doc_end" /\ total_chars >= max_context_chars) =>
        (pc' = "join" /\ di' = di)

\* C13: once the running total of appended chunk characters is at or above
\* max_context_chars, no lower-ranked selected document is processed and none
\* has a section in the context.
C13_NoDocumentAfterBudgetReached ==
    /\ []NoDocumentPastTheBudget
    /\ [][BudgetExitLeavesTheLoop]_vars

\* the call has returned after the first of two selected documents, the
\* running total being at the budget
C13_Witness ==
    /\ Returned
    /\ total_chars >= max_context_chars
    /\ Len(top_doc_scores) = 2
    /\ di = 1
    /\ LowerRanked # {}

\* the assembly loop: from "total_chars = 0" to the return
InAssembly == pc \in {"for_doc", "for_chunk", "doc_end", "join", "done"}

\* under a positive budget the running total stays below it, and the document
\* loop is left only after the last selected document
TotalBelowBudget ==
    (InAssembly /\ max_context_chars > 0) =>
        /\ total_chars < max_context_chars
        /\ (pc \in {"join", "done"} /\ top_doc_scores # <<>>) =>
              di = Len(top_doc_scores)

\* under a positive budget the end of a document that is not the last one
\* leads to the next document
EarlyExitNotTaken ==
    (pc = "doc_end" /\ max_context_chars > 0 /\ di < Len(top_doc_scores)) =>
        (pc' = "for_doc" /\ di' = di + 1)

\* C14: for max_context_chars > 0 the running total is below max_context_chars
\* in every state of the assembly loop, the exit on
\* "total_chars >= max_context_chars" is never taken and every selected
\* document is visited (so a lower-ranked document can have a section where a
\* higher-ranked one was dropped for the budget).
C14_TotalStaysBelowBudget ==
    /\ []TotalBelowBudget
    /\ [][EarlyExitNotTaken]_vars

\* the first selected document was dropped because its best chunk did not fit,
\* and the second one has its section in the returned context
C14_Witness ==
    /\ Returned
    /\ max_context_chars > 0
    /\ Len(top_doc_scores) = 2
    /\ ~NoText(BestChunks(top_doc_scores[1])[1].faiss_index)
    /\ ~Fits(0, FirstCandidateText(top_doc_scores[1]),
             DocHeader(top_doc_scores[1].doc_id), max_context_chars)
    /\ ~SectionEmitted(result.context, top_doc_scores[1].doc_id)
    /\ SectionEmitted(result.context, top_doc_scores[2].doc_id)

Counted == n_correct + n_incorrect + n_not_attempted

\* the number of records stored with verdict v
Stored(v) == Cardinality({ k \in 1..Len(results) : results[k].verdict = v })

\* between two iterations (and at the loop's exit) the three counters add up
\* to the number of questions handled, which is the number of records, and
\* each counter is the number of records of its verdict; inside an iteration
\* the sum is one ahead only between "Update counts" and "Store result"
CountersMatchRecords ==
    /\ Len(results) = qi
    /\ Counted = (IF bpc = "store" THEN qi + 1 ELSE qi)
    /\ bpc \in {"search", "done"} =>
          /\ n_correct = Stored("CORRECT")
          /\ n_not_attempted = Stored("NOT_ATTEMPTED")
          /\ n_incorrect = Len(results) - Stored("CORRECT") - Stored("NOT_ATTEMPTED")

\* "Update counts" adds one to the counter of the judged verdict, n_incorrect
\* for every verdict but CORRECT and NOT_ATTEMPTED and for a missing verdict
JudgedCountsOnce ==
    bpc = "count" =>
        LET known == judgment.has /\ judgment.verdict \in {"CORRECT", "NOT_ATTEMPTED"}
        IN  /\ n_correct' = n_correct +
                    (IF known /\ judgment.verdict = "CORRECT" THEN 1 ELSE 0)
            /\ n_not_attempted' = n_not_attempted +
                    (IF known /\ judgment.verdict = "NOT_ATTEMPTED" THEN 1 ELSE 0)
            /\ n_incorrect' = n_incorrect + (IF known THEN 0 ELSE 1)

\* the handler adds one to n_not_attempted and to no other counter, wherever
\* in the body the exception was raised
RaisedCountsNotAttempted ==
    bpc = "except" =>
        /\ n_not_attempted' = n_not_attempted + 1
        /\ n_correct' = n_correct
        /\ n_incorrect' = n_incorrect

\* the counters change in no other step
OnlyCountAndHandlerCount ==
    bpc \notin {"count", "except"} =>
        UNCHANGED <<n_correct, n_incorrect, n_not_attempted>>

\* C15: after iteration i of run_benchmark's loop,
\* n_correct + n_incorrect + n_not_attempted = i + 1 = len(results); every
\* question adds one to exactly one counter: n_incorrect for a judged verdict
\* that is neither CORRECT nor NOT_ATTEMPTED or is missing, n_not_attempted
\* alone for a question that raised, also after its answer was generated.
C15_CountersAddUpToQuestions ==
    /\ []CountersMatchRecords
    /\ [][JudgedCountsOnce /\ RaisedCountsNotAttempted /\ OnlyCountAndHandlerCount]_vars

\* three questions are done: one judged CORRECT, one with an unknown verdict,
\* one whose judging raised after its answer was generated
C15_Witness ==
    /\ bpc = "done"
    /\ Len(results) = 3
    /\ n_correct = 1
    /\ n_incorrect = 1
    /\ n_not_attempted = 1
    /\ \E k \in 1..3 : results[k].verdict = "PARTIAL"
    /\ \E k \in 1..3 : results[k].error = "no upper"

\* the valid hits of the search result
ValidHits == { j \in 1..Len(hits) : hits[j].idx >= 0 }

\* the num_matching_chunks of all the documents search() lists
ListedChunks ==
    SumSeq([e \in 1..Len(result.document_scores) |->
                result.document_scores[e].num_matching_chunks])

\* C16: the num_matching_chunks of every document in document_scores is the
\* number of valid hits of that document in the search result, whatever the
\* cap of 10, the budget and the texts; it is at least 1, the sentinel hits
\* are counted for no document, and the sum over the listed documents is at
\* most top_k_chunks.
C16_NumMatchingChunksCountsValidHits ==
    Returned =>
        /\ \A e \in 1..Len(result.document_scores) :
              LET s == result.document_scores[e]
              IN  /\ s.num_matching_chunks = Cardinality(HitsOfDoc(s.doc_id))
                  /\ s.num_matching_chunks >= 1
        /\ SumSeq([e \in 1..Len(doc_scores) |-> Len(doc_scores[e].matching_chunks)])
              = Cardinality(ValidHits)
        /\ ListedChunks <= Cardinality(ValidHits)
        /\ ListedChunks <= Len(hits)

\* a listed document has more valid hits than the cap, one of them without
\* text, the search result ends in a sentinel, and the budget has cut the
\* document's section short
C16_Witness ==
    /\ Returned
    /\ hits[Len(hits)].idx < 0
    /\ max_context_chars = 40
    /\ \E e \in 1..Len(result.document_scores) :
          LET d == result.document_scores[e].doc_id
          IN  /\ result.document_scores[e].num_matching_chunks > ChunkCap
              /\ \E j \in HitsOfDoc(d) : NoText(hits[j].idx)
              /\ \E s \in 1..Len(context_parts) :
                    /\ context_parts[s][2] = d
                    /\ Len(SectionTexts(context_parts[s])) < ChunkCap - 1

====
